---- MODULE Spec2Model ----
\* WebReady (src/server.js): the POST /process and POST /process-batch handlers
\* as a state machine.  A request is followed from its arrival to its
\* response; every `await` of a handler (metadata probe, one encode, the
\* archive's finalize) ends one action.  Under SpecConcurrent several
\* requests are in flight and take turns at their awaits.  Strings are sequences of
\* one-character strings, so that split / trim / parseInt / toLowerCase /
\* replace and the template strings are computed character by character.
EXTENDS Integers, Sequences, FiniteSets, TLC

VARIABLES
    pc,           \* position of the handler: idle, probe, encode, finalize, done
    mode,         \* which handler runs: none, single, batch
    body,         \* req.body: the raw form fields
    files,        \* req.file (a sequence of at most one) / req.files
    widths,       \* const widths
    formats,      \* const formats
    qWebp,        \* const qWebp
    qAvif,        \* const qAvif
    baseName,     \* const baseName (per request in /process, per file in /process-batch)
    sizesIn,      \* const sizesIn
    fileIdx,      \* index of the file the handler is working on
    origW,        \* const origW = meta.width
    finalWidths,  \* const finalWidths
    wIdx,         \* index in finalWidths of the width being encoded
    pending,      \* format of the encode being awaited
    outputs,      \* const outputs = []
    allOutputs,   \* const allOutputs = []   (batch)
    allSnippets,  \* const allSnippets = []  (batch)
    log,          \* what console.error recorded
    probeCalls,   \* calls of sharp(buffer).metadata(), in order
    encodeCalls,  \* calls of pipeline.clone().<fmt>().toBuffer(), in order
    encodeResults, \* whether each call that has returned gave a buffer (TRUE) or threw
    response,     \* the JSON error response, or the streamed archive's headers
    archive,      \* entries appended to the zip, in order
    parked        \* the other invocations of the handlers, each waiting at an `await`

vars == << pc, mode, body, files, widths, formats, qWebp, qAvif, baseName,
           sizesIn, fileIdx, origW, finalWidths, wIdx, pending, outputs,
           allOutputs, allSnippets, log, probeCalls, encodeCalls,
           encodeResults, response, archive, parked >>

-----------------------------------------------------------------------------
\* Bounds of the model.

\* Largest number of files in one batch request (multer allows 50).
MaxFiles == 2

\* Largest number of requests in flight at the same time.
MaxInFlight == 2

-----------------------------------------------------------------------------
\* Strings.

Digit == << "0", "1", "2", "3", "4", "5", "6", "7", "8", "9" >>

IsDigit(c) == \E d \in 1..10 : Digit[d] = c

DigitVal(c) == (CHOOSE d \in 1..10 : Digit[d] = c) - 1

IsSpace(c) == c = " "

\* String(n) of an integer.
RECURSIVE NatStr(_)
NatStr(n) == IF n < 10 THEN << Digit[n + 1] >>
             ELSE NatStr(n \div 10) \o << Digit[(n % 10) + 1] >>

NumStr(n) == IF n < 0 THEN << "-" >> \o NatStr(0 - n) ELSE NatStr(n)

\* A form field or property that may be absent (undefined).
Absent == [present |-> FALSE, val |-> << >>]

Given(s) == [present |-> TRUE, val |-> s]

\* a ?? b
Coalesce(a, b) == IF a.present THEN a.val ELSE b

\* Array.prototype.join
RECURSIVE Join(_, _)
Join(parts, sep) ==
    IF Len(parts) = 0 THEN << >>
    ELSE IF Len(parts) = 1 THEN parts[1]
    ELSE parts[1] \o sep \o Join(Tail(parts), sep)

\* String.prototype.split(','): the sequence of the pieces between commas;
\* the empty string gives one empty piece.
RECURSIVE SplitFrom(_, _, _)
SplitFrom(s, i, cur) ==
    IF i > Len(s) THEN << cur >>
    ELSE IF s[i] = "," THEN << cur >> \o SplitFrom(s, i + 1, << >>)
    ELSE SplitFrom(s, i + 1, Append(cur, s[i]))

Split(s) == SplitFrom(s, 1, << >>)

RECURSIVE TrimStart(_)
TrimStart(s) == IF Len(s) > 0 /\ IsSpace(s[1]) THEN TrimStart(Tail(s)) ELSE s

RECURSIVE TrimEnd(_)
TrimEnd(s) == IF Len(s) > 0 /\ IsSpace(s[Len(s)])
              THEN TrimEnd(SubSeq(s, 1, Len(s) - 1)) ELSE s

\* String.prototype.trim
Trim(s) == TrimEnd(TrimStart(s))

Upper == << "A", "V", "I", "F", "W", "E", "B", "P" >>
Lower == << "a", "v", "i", "f", "w", "e", "b", "p" >>

LowerChar(c) == IF \E k \in 1..Len(Upper) : Upper[k] = c
                THEN Lower[CHOOSE k \in 1..Len(Upper) : Upper[k] = c]
                ELSE c

\* String.prototype.toLowerCase (over the letters the inputs use)
ToLowerCase(s) == [k \in 1..Len(s) |-> LowerChar(s[k])]

\* Numbers: an integer or NaN.
NaN == [nan |-> TRUE, val |-> 0]

Num(n) == [nan |-> FALSE, val |-> n]

\* The value of the longest prefix of digits of s from position i on.
RECURSIVE DigitsValue(_, _, _)
DigitsValue(s, i, acc) ==
    IF i <= Len(s) /\ IsDigit(s[i])
    THEN DigitsValue(s, i + 1, acc * 10 + DigitVal(s[i]))
    ELSE acc

\* parseInt(s, 10): leading white space is skipped, then an optional sign,
\* then the longest run of digits; NaN when there is no digit there.
ParseInt(s) ==
    LET t    == TrimStart(s)
        neg  == Len(t) > 0 /\ t[1] = "-"
        sgn  == Len(t) > 0 /\ (t[1] = "-" \/ t[1] = "+")
        from == IF sgn THEN 2 ELSE 1
    IN  IF from <= Len(t) /\ IsDigit(t[from])
        THEN Num((IF neg THEN -1 ELSE 1) * DigitsValue(t, from, 0))
        ELSE NaN

\* Number.isFinite
IsFinite(x) == ~x.nan

\* Math.max(a, x) and Math.min(a, x) with an integer a: NaN when x is NaN.
MathMax(a, x) == IF x.nan THEN NaN ELSE Num(IF x.val > a THEN x.val ELSE a)

MathMin(a, x) == IF x.nan THEN NaN ELSE Num(IF x.val < a THEN x.val ELSE a)

\* Array.prototype.filter: the elements of s the callback keeps, in order;
\* keep[i] is the callback's result for s[i].
Filter(s, keep) ==
    LET F[i \in 0..Len(s)] ==
            IF i = 0 THEN << >>
            ELSE IF keep[i] THEN Append(F[i - 1], s[i]) ELSE F[i - 1]
    IN  F[Len(s)]

\* Array.prototype.sort((a, b) => a - b): a stable ascending sort.
RECURSIVE Insert(_, _)
Insert(sorted, x) ==
    IF Len(sorted) = 0 THEN << x >>
    ELSE IF x < sorted[1] THEN << x >> \o sorted
    ELSE << sorted[1] >> \o Insert(Tail(sorted), x)

RECURSIVE SortAsc(_)
SortAsc(s) == IF Len(s) = 0 THEN << >>
              ELSE Insert(SortAsc(SubSeq(s, 1, Len(s) - 1)), s[Len(s)])

\* Array.prototype.includes
Includes(s, x) == \E k \in 1..Len(s) : s[k] = x

-----------------------------------------------------------------------------
\* Configuration (the same code in both handlers).

WEBP == << "w", "e", "b", "p" >>

AVIF == << "a", "v", "i", "f" >>

defaultBreakpoints == << 480, 768, 1200 >>

\* [480, 768, 1200].join(',')
NumsText(ws, sep) == Join([k \in 1..Len(ws) |-> NumStr(ws[k])], sep)

\* n => Number.isFinite(n) && n > 0
KeepWidth(n) == IsFinite(n) /\ n.val > 0

\* const widths = String(body.widths ?? defaultBreakpoints.join(','))
\*   .split(',').map(s => parseInt(s.trim(), 10))
\*   .filter(n => Number.isFinite(n) && n > 0).sort((a, b) => a - b)
ResolveWidths(field) ==
    LET tokens == Split(Coalesce(field, NumsText(defaultBreakpoints, << "," >>)))
        parsed == [k \in 1..Len(tokens) |-> ParseInt(Trim(tokens[k]))]
        kept   == Filter(parsed, [k \in 1..Len(parsed) |-> KeepWidth(parsed[k])])
    IN  SortAsc([k \in 1..Len(kept) |-> kept[k].val])

\* f => f === 'webp' || f === 'avif'
KeepFormat(f) == f = WEBP \/ f = AVIF

\* const formats = String(body.formats ?? 'webp').split(',')
\*   .map(s => s.trim().toLowerCase()).filter(...);
\* if (formats.length === 0) formats.push('webp')
ResolveFormats(field) ==
    LET tokens == Split(Coalesce(field, WEBP))
        mapped == [k \in 1..Len(tokens) |-> ToLowerCase(Trim(tokens[k]))]
        kept   == Filter(mapped, [k \in 1..Len(mapped) |-> KeepFormat(mapped[k])])
    IN  IF Len(kept) = 0 THEN Append(kept, WEBP) ELSE kept

defaultQualityWebp == << "8", "2" >>

defaultQualityAvif == << "5", "5" >>

\* Math.min(100, Math.max(1, parseInt(String(body.quality_x ?? dflt), 10)))
ResolveQuality(field, dflt) ==
    MathMin(100, MathMax(1, ParseInt(Coalesce(field, dflt))))

\* s.replace(/\.[^.]+$/, ''): the last dot and what follows it are removed
\* when at least one character follows it.
LastDot(s) == IF \E k \in 1..Len(s) : s[k] = "."
              THEN CHOOSE k \in 1..Len(s) :
                       s[k] = "." /\ \A j \in (k + 1)..Len(s) : s[j] # "."
              ELSE 0

StripExt(s) == IF LastDot(s) > 0 /\ LastDot(s) < Len(s)
               THEN SubSeq(s, 1, LastDot(s) - 1)
               ELSE s

IMAGE == << "i", "m", "a", "g", "e" >>

\* String(body.basename ?? file.originalname ?? 'image').replace(/\.[^.]+$/, '')
SingleBaseName(basenameField, file) ==
    StripExt(Coalesce(basenameField, Coalesce(file.originalname, IMAGE)))

\* String(file.originalname ?? 'image').replace(/\.[^.]+$/, '')
BatchBaseName(file) == StripExt(Coalesce(file.originalname, IMAGE))

\* ${ws[k]} in a template string; the fixed text of a template is kept in
\* pieces of several characters.
ElemText(ws, k) == IF k \in 1..Len(ws) THEN NumStr(ws[k]) ELSE << "undefined" >>

\* `(max-width: ${ws[0]}px) 100vw, (max-width: ${ws[1] || ws[0]}px) 50vw, ${ws[ws.length - 1]}px`
DefaultSizes(ws) ==
    << "(max-width: " >> \o ElemText(ws, 1) \o << "px) 100vw, (max-width: " >>
    \o (IF Len(ws) >= 2 THEN ElemText(ws, 2) ELSE ElemText(ws, 1))
    \o << "px) 50vw, " >> \o ElemText(ws, Len(ws)) \o << "px" >>

\* The whole configuration block of a handler.
ResolveConfig(b) ==
    [ widths  |-> ResolveWidths(b.widths),
      formats |-> ResolveFormats(b.formats),
      qWebp   |-> ResolveQuality(b.quality_webp, defaultQualityWebp),
      qAvif   |-> ResolveQuality(b.quality_avif, defaultQualityAvif) ]

-----------------------------------------------------------------------------
\* Derivatives and markup (the same code in both handlers).

\* Mutation of FitsOriginal: the comparison with the original width is lost.
FitsOriginalAlways(w, orig) == w > 0

\* widths.filter(w => w <= origW)
FitsOriginal(w, orig) == w <= orig

\* Mutation of FeasibleWidths: when no width fits, the requested widths are
\* used instead.
FeasibleOrRequested(ws, orig) ==
    LET fit == Filter(ws, [k \in 1..Len(ws) |-> FitsOriginal(ws[k], orig)])
    IN  IF Len(fit) = 0 THEN ws ELSE fit

FeasibleWidths(ws, orig) ==
    Filter(ws, [k \in 1..Len(ws) |-> FitsOriginal(ws[k], orig)])

\* `${baseName}-${w}.webp`
FileName(base, w, fmt) == base \o << "-" >> \o NumStr(w) \o << "." >> \o fmt

\* What the codec returns for one resize + encode of a file's buffer: the
\* pixels are not modelled, the call's arguments are.
Encoded(file, w, fmt, quality) ==
    [file |-> file, width |-> w, fmt |-> fmt, quality |-> quality]

\* { name, fmt, width, buf }
Output(base, w, fmt, buf) ==
    [name |-> FileName(base, w, fmt), fmt |-> fmt, width |-> w, buf |-> buf]

\* `${out.name} ${out.width}w`
SrcsetEntry(out) == out.name \o << " " >> \o NumStr(out.width) \o << "w" >>

IsFmt(out, fmt) == out.fmt = fmt

\* for (const out of outputs) srcsets[out.fmt].push(...)
Srcsets(outs, fmt) ==
    LET mine == Filter(outs, [k \in 1..Len(outs) |-> IsFmt(outs[k], fmt)])
    IN  [k \in 1..Len(mine) |-> SrcsetEntry(mine[k])]

\* Mutation of BaseSrc: the src always names the webp file.
BaseSrcAlwaysWebp(base, fws, fmts) ==
    base \o << "-" >> \o ElemText(fws, 1) \o << "." >> \o WEBP

\* formats.includes('webp') ? `${baseName}-${finalWidths[0]}.webp`
\*                          : `${baseName}-${finalWidths[0]}.avif`
BaseSrc(base, fws, fmts) ==
    IF Includes(fmts, WEBP)
    THEN base \o << "-" >> \o ElemText(fws, 1) \o << "." >> \o WEBP
    ELSE base \o << "-" >> \o ElemText(fws, 1) \o << "." >> \o AVIF

CommaSpace == << ",", " " >>

\* The <img> snippet: its src, srcset and sizes attributes.
ImgSnippet(base, fws, fmts, outs, sizes) ==
    [ tag     |-> "img",
      src     |-> BaseSrc(base, fws, fmts),
      srcset  |-> Join(IF Includes(fmts, WEBP) THEN Srcsets(outs, WEBP)
                       ELSE Srcsets(outs, AVIF), CommaSpace),
      sizes   |-> sizes,
      sources |-> << >> ]

\* One <source type="image/fmt" srcset=... sizes=...> when the format has
\* entries, nothing otherwise.
SourceTag(outs, fmt, sizes) ==
    IF Len(Srcsets(outs, fmt)) > 0
    THEN << [ type   |-> fmt,
              srcset |-> Join(Srcsets(outs, fmt), CommaSpace),
              sizes  |-> sizes ] >>
    ELSE << >>

\* The <picture> snippet when more than one format token was kept, the <img>
\* snippet otherwise.
PictureSnippet(base, fws, fmts, outs, sizes) ==
    IF Len(fmts) > 1
    THEN [ tag     |-> "picture",
           src     |-> BaseSrc(base, fws, fmts),
           srcset  |-> << >>,
           sizes   |-> << >>,
           sources |-> SourceTag(outs, AVIF, sizes) \o SourceTag(outs, WEBP, sizes) ]
    ELSE ImgSnippet(base, fws, fmts, outs, sizes)

WebReadyOutput == << "WebReady output" >>

\* The snippetDoc of /process: title, header comments (widths, formats,
\* sizes) and the two snippets.
SingleSnippetDoc(base, fws, fmts, outs, sizes) ==
    [ title   |-> WebReadyOutput,
      widths  |-> NumsText(fws, CommaSpace),
      formats |-> Join(fmts, CommaSpace),
      sizes   |-> sizes,
      img     |-> ImgSnippet(base, fws, fmts, outs, sizes),
      picture |-> PictureSnippet(base, fws, fmts, outs, sizes) ]

\* The snippetDoc of one image of /process-batch: titled with the base name,
\* no sizes comment; the sizes attribute is derived from the image's own
\* finalWidths.
BatchSnippetDoc(base, fws, fmts, outs) ==
    [ title   |-> base,
      widths  |-> NumsText(fws, CommaSpace),
      formats |-> Join(fmts, CommaSpace),
      sizes   |-> << >>,
      img     |-> ImgSnippet(base, fws, fmts, outs, DefaultSizes(fws)),
      picture |-> PictureSnippet(base, fws, fmts, outs, DefaultSizes(fws)) ]

\* combinedSnippets: the header (files.length, widths, formats) and the
\* images' documents.
CombinedSnippets(fs, ws, fmts, snips) ==
    [ count   |-> Len(fs),
      widths  |-> NumsText(ws, CommaSpace),
      formats |-> Join(fmts, CommaSpace),
      blocks  |-> snips ]

\* The first encode of a width: webp when requested, else avif (formats is
\* never empty and holds only these two).
FirstFmt(fmts) == IF Includes(fmts, WEBP) THEN WEBP ELSE AVIF

\* The quality an encode of fmt is given.
QualityOf(fmt, qw, qa) == IF fmt = WEBP THEN qw ELSE qa

-----------------------------------------------------------------------------
\* Requests: the raw form fields and files the model draws from.

\* body.widths of the requests that are followed through a handler: absent,
\* "2000", "480,480,768", "abc", "768, 480".
WidthsFields ==
    { Absent,
      Given(<< "2", "0", "0", "0" >>),
      Given(<< "4", "8", "0", ",", "4", "8", "0", ",", "7", "6", "8" >>),
      Given(<< "a", "b", "c" >>),
      Given(<< "7", "6", "8", ",", " ", "4", "8", "0" >>) }

\* Further body.widths the configuration is resolved for: "", "0,-5",
\* "12px,x", " 1200 ,480,,768", "+480,480.9".
MoreWidthsFields ==
    { Given(<< >>),
      Given(<< "0", ",", "-", "5" >>),
      Given(<< "1", "2", "p", "x", ",", "x" >>),
      Given(<< " ", "1", "2", "0", "0", " ", ",", "4", "8", "0", ",", ",", "7", "6", "8" >>),
      Given(<< "+", "4", "8", "0", ",", "4", "8", "0", ".", "9" >>) }

\* body.formats of the requests that are followed through a handler: absent,
\* "webp,avif", "avif,webp", "AVIF", "webp,webp".
FormatsFields ==
    { Absent,
      Given(<< "w", "e", "b", "p", ",", "a", "v", "i", "f" >>),
      Given(<< "a", "v", "i", "f", ",", "w", "e", "b", "p" >>),
      Given(<< "A", "V", "I", "F" >>),
      Given(<< "w", "e", "b", "p", ",", "w", "e", "b", "p" >>) }

\* Further body.formats: "gif", "", " Avif , png", "avif,avif,webp".
MoreFormatsFields ==
    { Given(<< "g", "i", "f" >>),
      Given(<< >>),
      Given(<< " ", "A", "v", "i", "f", " ", ",", " ", "p", "n", "g" >>),
      Given(<< "a", "v", "i", "f", ",", "a", "v", "i", "f", ",", "w", "e", "b", "p" >>) }

\* body.quality_webp / body.quality_avif of the requests that are followed
\* through a handler: absent, "abc".
QualityFields ==
    { Absent,
      Given(<< "a", "b", "c" >>) }

\* Further quality fields: "0", "500", "90", "-7", "", "1", "100", " 42px".
MoreQualityFields ==
    { Given(<< "0" >>),
      Given(<< "5", "0", "0" >>),
      Given(<< "9", "0" >>),
      Given(<< "-", "7" >>),
      Given(<< >>),
      Given(<< "1" >>),
      Given(<< "1", "0", "0" >>),
      Given(<< " ", "4", "2", "p", "x" >>) }

\* body.basename: absent, "hero".
BasenameFields ==
    { Absent,
      Given(<< "h", "e", "r", "o" >>) }

\* Further body.basename: "my.pic", "v1.", "", ".b".
MoreBasenameFields ==
    { Given(<< "m", "y", ".", "p", "i", "c" >>),
      Given(<< "v", "1", "." >>),
      Given(<< >>),
      Given(<< ".", "b" >>) }

\* body.sizes: absent, "100vw".
SizesFields ==
    { Absent,
      Given(<< "1", "0", "0", "v", "w" >>) }

\* file.originalname: "a.jpg", "a.png", "b.jpg".
OriginalNames ==
    { Given(<< "a", ".", "j", "p", "g" >>),
      Given(<< "a", ".", "p", "n", "g" >>),
      Given(<< "b", ".", "j", "p", "g" >>) }

\* Further file.originalname: absent, "a.b.jpg", "a".
MoreOriginalNames ==
    { Absent,
      Given(<< "a", ".", "b", ".", "j", "p", "g" >>),
      Given(<< "a" >>) }

\* What sharp(buffer).metadata() gives for a file: it throws (ok is FALSE) or
\* reports a width; a width of 0 stands for a missing (falsy) meta.width.
Metas ==
    { [ok |-> FALSE, width |-> 0],
      [ok |-> TRUE, width |-> 0],
      [ok |-> TRUE, width |-> 500],
      [ok |-> TRUE, width |-> 1200] }

Files == [originalname : OriginalNames, meta : Metas]

\* req.files of /process-batch: up to MaxFiles files (none when the field is
\* missing); req.file of /process: none or one.
FileLists == UNION { [1..n -> Files] : n \in 0..MaxFiles }

SingleFileLists == UNION { [1..n -> Files] : n \in 0..1 }

SingleBodies ==
    [ widths : WidthsFields, formats : FormatsFields,
      quality_webp : QualityFields, quality_avif : { Absent },
      basename : BasenameFields, sizes : SizesFields ]

\* upload.array('images') with the same text fields; basename and sizes are
\* not read by /process-batch.
BatchBodies ==
    [ widths : WidthsFields, formats : FormatsFields,
      quality_webp : { Absent }, quality_avif : { Absent },
      basename : { Absent }, sizes : { Absent } ]

-----------------------------------------------------------------------------
\* The handlers.

\* req.body of a request without text fields.
NoFields ==
    [ widths |-> Absent, formats |-> Absent, quality_webp |-> Absent,
      quality_avif |-> Absent, basename |-> Absent, sizes |-> Absent ]

NoResponse == [type |-> "none", status |-> 0, error |-> "", width |-> 0]

\* res.status(status).json({ error })
JsonError(status, error, width) ==
    [type |-> "json", status |-> status, error |-> error, width |-> width]

\* res.setHeader('Content-Type', 'application/zip'); zip.pipe(res)
ZipResponse == [type |-> "zip", status |-> 200, error |-> "", width |-> 0]

SnippetHtml == << "s", "n", "i", "p", "p", "e", "t", ".", "h", "t", "m", "l" >>

SnippetsHtml == << "s", "n", "i", "p", "p", "e", "t", "s", ".", "h", "t", "m", "l" >>

\* for (const out of outputs) zip.append(out.buf, { name: out.name })
OutputEntries(outs) ==
    [k \in 1..Len(outs) |-> [name |-> outs[k].name, data |-> outs[k].buf]]

\* One sharp(...).resize({ width: w }).clone().<fmt>({ quality }).toBuffer()
EncodeCall(file, w, fmt, quality) ==
    [file |-> file, width |-> w, fmt |-> fmt, quality |-> quality]

LogEntry(file, reason) == [file |-> file, reason |-> reason]

\* What one invocation of `async (req, res) => { ... }` holds: req, res, its
\* position, and the bindings declared inside the handler's body.  console
\* is the process's, not the invocation's.
Closure ==
    [ pc |-> pc, mode |-> mode, body |-> body, files |-> files,
      widths |-> widths, formats |-> formats, qWebp |-> qWebp, qAvif |-> qAvif,
      baseName |-> baseName, sizesIn |-> sizesIn, fileIdx |-> fileIdx,
      origW |-> origW, finalWidths |-> finalWidths, wIdx |-> wIdx,
      pending |-> pending, outputs |-> outputs, allOutputs |-> allOutputs,
      allSnippets |-> allSnippets, probeCalls |-> probeCalls,
      encodeCalls |-> encodeCalls, encodeResults |-> encodeResults,
      response |-> response, archive |-> archive ]

\* An invocation that has not received its request yet.
IdleClosure ==
    [ pc |-> "idle", mode |-> "none", body |-> NoFields, files |-> << >>,
      widths |-> << >>, formats |-> << >>, qWebp |-> NaN, qAvif |-> NaN,
      baseName |-> << >>, sizesIn |-> << >>, fileIdx |-> 0,
      origW |-> 0, finalWidths |-> << >>, wIdx |-> 0,
      pending |-> << >>, outputs |-> << >>, allOutputs |-> << >>,
      allSnippets |-> << >>, probeCalls |-> << >>,
      encodeCalls |-> << >>, encodeResults |-> << >>,
      response |-> NoResponse, archive |-> << >> ]

Init ==
    /\ parked = [k \in 1..(MaxInFlight - 1) |-> IdleClosure]
    /\ pc = "idle"
    /\ mode = "none"
    /\ body = NoFields
    /\ files = << >>
    /\ widths = << >>
    /\ formats = << >>
    /\ qWebp = NaN
    /\ qAvif = NaN
    /\ baseName = << >>
    /\ sizesIn = << >>
    /\ fileIdx = 0
    /\ origW = 0
    /\ finalWidths = << >>
    /\ wIdx = 0
    /\ pending = << >>
    /\ outputs = << >>
    /\ allOutputs = << >>
    /\ allSnippets = << >>
    /\ log = << >>
    /\ probeCalls = << >>
    /\ encodeCalls = << >>
    /\ encodeResults = << >>
    /\ response = NoResponse
    /\ archive = << >>

\* POST /process, from the arrival of the request to `await metadata()`.
SingleReceive(b, fs) ==
    /\ pc = "idle"
    /\ mode' = "single"
    /\ body' = b
    /\ files' = fs
    /\ IF Len(fs) = 0
       THEN /\ response' = JsonError(400, "Missing file", 0)
            /\ pc' = "done"
            /\ UNCHANGED << widths, formats, qWebp, qAvif, baseName, sizesIn,
                            fileIdx, probeCalls >>
       ELSE LET cfg == ResolveConfig(b) IN
            /\ widths' = cfg.widths
            /\ formats' = cfg.formats
            /\ qWebp' = cfg.qWebp
            /\ qAvif' = cfg.qAvif
            /\ baseName' = SingleBaseName(b.basename, fs[1])
            /\ sizesIn' = Coalesce(b.sizes, DefaultSizes(cfg.widths))
            /\ fileIdx' = 1
            /\ probeCalls' = Append(probeCalls, 1)
            /\ pc' = "probe"
            /\ UNCHANGED response
    /\ UNCHANGED << encodeResults, parked >>
    /\ UNCHANGED << origW, finalWidths, wIdx, pending, outputs, allOutputs,
                    allSnippets, log, encodeCalls, archive >>

\* POST /process, from the result of metadata() to the first encode.
SingleProbe ==
    /\ pc = "probe"
    /\ mode = "single"
    /\ LET meta == files[1].meta
           fws  == FeasibleWidths(widths, meta.width)
       IN  IF ~meta.ok
           THEN /\ log' = Append(log, LogEntry(1, "metadata error"))
                /\ response' = JsonError(400, "Could not read image metadata", 0)
                /\ pc' = "done"
                /\ UNCHANGED << origW, finalWidths, wIdx, pending, encodeCalls >>
           ELSE IF meta.width = 0
           THEN /\ response' = JsonError(400, "Could not determine image width", 0)
                /\ pc' = "done"
                /\ origW' = meta.width
                /\ UNCHANGED << finalWidths, wIdx, pending, encodeCalls, log >>
           ELSE IF Len(fws) = 0
           THEN /\ response' = JsonError(400, "All requested widths exceed original width",
                                         meta.width)
                /\ pc' = "done"
                /\ origW' = meta.width
                /\ finalWidths' = fws
                /\ UNCHANGED << wIdx, pending, encodeCalls, log >>
           ELSE /\ origW' = meta.width
                /\ finalWidths' = fws
                /\ wIdx' = 1
                /\ pending' = FirstFmt(formats)
                /\ encodeCalls' = Append(encodeCalls,
                       EncodeCall(1, fws[1], FirstFmt(formats),
                                  QualityOf(FirstFmt(formats), qWebp, qAvif)))
                /\ pc' = "encode"
                /\ UNCHANGED << response, log >>
    /\ UNCHANGED << encodeResults, parked >>
    /\ UNCHANGED << mode, body, files, widths, formats, qWebp, qAvif, baseName,
                    sizesIn, fileIdx, outputs, allOutputs, allSnippets,
                    probeCalls, archive >>

\* Whether the awaited encode is followed by the avif encode of the same
\* width: if (formats.includes('avif')) after the webp one.
AvifFollows(fmts, pend) == pend = WEBP /\ Includes(fmts, AVIF)

\* The output pushed when the awaited encode returns its buffer.
Pushed(file, base, w, fmt, quality) ==
    Output(base, w, fmt, Encoded(file, w, fmt, quality))

\* POST /process, from the result of one encode to the next `await`: the
\* next encode, or zip.finalize() after the snippets and the archive's
\* entries; a throw is caught and answered with 500.
SingleEncode ==
    /\ pc = "encode"
    /\ mode = "single"
    /\ \E ok \in BOOLEAN :
         /\ encodeResults' = Append(encodeResults, ok)
         /\ UNCHANGED parked
         /\ IF ~ok
            THEN /\ log' = Append(log, LogEntry(1, "sharp processing error"))
                 /\ response' = JsonError(500, "Image processing failed in sharp", 0)
                 /\ pc' = "done"
                 /\ UNCHANGED << outputs, wIdx, pending, encodeCalls, archive >>
            ELSE LET w    == finalWidths[wIdx]
                     outs == Append(outputs,
                                 Pushed(1, baseName, w, pending,
                                        QualityOf(pending, qWebp, qAvif)))
                 IN  /\ outputs' = outs
                     /\ UNCHANGED log
                     /\ IF AvifFollows(formats, pending)
                        THEN /\ pending' = AVIF
                             /\ encodeCalls' = Append(encodeCalls,
                                    EncodeCall(1, w, AVIF, qAvif))
                             /\ UNCHANGED << wIdx, pc, response, archive >>
                        ELSE IF wIdx < Len(finalWidths)
                        THEN /\ wIdx' = wIdx + 1
                             /\ pending' = FirstFmt(formats)
                             /\ encodeCalls' = Append(encodeCalls,
                                    EncodeCall(1, finalWidths[wIdx + 1], FirstFmt(formats),
                                               QualityOf(FirstFmt(formats), qWebp, qAvif)))
                             /\ UNCHANGED << pc, response, archive >>
                        ELSE /\ response' = ZipResponse
                             /\ archive' = OutputEntries(outs) \o
                                    << [ name |-> SnippetHtml,
                                         data |-> SingleSnippetDoc(baseName, finalWidths,
                                                      formats, outs, sizesIn) ] >>
                             /\ pc' = "finalize"
                             /\ UNCHANGED << wIdx, pending, encodeCalls >>
    /\ UNCHANGED << mode, body, files, widths, formats, qWebp, qAvif, baseName,
                    sizesIn, fileIdx, origW, finalWidths, allOutputs,
                    allSnippets, probeCalls >>

\* POST /process: await zip.finalize() returns.
SingleFinalize ==
    /\ pc = "finalize"
    /\ mode = "single"
    /\ pc' = "done"
    /\ UNCHANGED << encodeResults, parked >>
    /\ UNCHANGED << mode, body, files, widths, formats, qWebp, qAvif, baseName,
                    sizesIn, fileIdx, origW, finalWidths, wIdx, pending,
                    outputs, allOutputs, allSnippets, log, probeCalls,
                    encodeCalls, response, archive >>

\* Mutation of Continue: `break`, the loop over the n files ends.
Break(i, n) == n + 1

\* `continue`: the loop over files goes on with the file after file i of n.
Continue(i, n) == i + 1

\* Mutation of NoneProcessable: the check after the loop is lost.
NoneProcessableNever(all) == Len(all) < 0

\* if (allOutputs.length === 0)
NoneProcessable(all) == Len(all) = 0

\* Mutation of AfterCodecFailure: the outputs encoded before the throw are
\* kept.
KeepPartialOutputs(all, outs) == all \o outs

\* What allOutputs is after an image whose encode threw: the catch block
\* continues, the image's outputs are dropped.
AfterCodecFailure(all, outs) == all

\* POST /process-batch: the loop's iteration for file i (up to its `await
\* metadata()`), or, past the last file, the code after the loop up to
\* `await zip.finalize()`.  The constants of the iteration that ended
\* (meta, origW, finalWidths, outputs, sizesIn) go out of scope.
BatchLoop(i, all, snips) ==
    /\ allOutputs' = all
    /\ allSnippets' = snips
    /\ fileIdx' = i
    /\ origW' = 0
    /\ finalWidths' = << >>
    /\ outputs' = << >>
    /\ wIdx' = 0
    /\ pending' = << >>
    /\ IF i <= Len(files)
       THEN /\ baseName' = BatchBaseName(files[i])
            /\ probeCalls' = Append(probeCalls, i)
            /\ pc' = "probe"
            /\ UNCHANGED << response, archive >>
       ELSE /\ UNCHANGED << baseName, probeCalls >>
            /\ IF NoneProcessable(all)
               THEN /\ response' = JsonError(400, "No images could be processed", 0)
                    /\ pc' = "done"
                    /\ UNCHANGED archive
               ELSE /\ response' = ZipResponse
                    /\ archive' = OutputEntries(all) \o
                           << [ name |-> SnippetsHtml,
                                data |-> CombinedSnippets(files, widths, formats, snips) ] >>
                    /\ pc' = "finalize"

\* POST /process-batch, from the arrival of the request to the first file's
\* `await metadata()`.
BatchReceive(b, fs) ==
    /\ pc = "idle"
    /\ mode' = "batch"
    /\ body' = b
    /\ files' = fs
    /\ IF Len(fs) = 0
       THEN /\ response' = JsonError(400, "No files provided", 0)
            /\ pc' = "done"
            /\ UNCHANGED << widths, formats, qWebp, qAvif, baseName, fileIdx,
                            probeCalls >>
       ELSE LET cfg == ResolveConfig(b) IN
            /\ widths' = cfg.widths
            /\ formats' = cfg.formats
            /\ qWebp' = cfg.qWebp
            /\ qAvif' = cfg.qAvif
            /\ baseName' = BatchBaseName(fs[1])
            /\ fileIdx' = 1
            /\ probeCalls' = Append(probeCalls, 1)
            /\ pc' = "probe"
            /\ UNCHANGED response
    /\ UNCHANGED << encodeResults, parked >>
    /\ UNCHANGED << sizesIn, origW, finalWidths, wIdx, pending, outputs,
                    allOutputs, allSnippets, log, encodeCalls, archive >>

\* POST /process-batch, from the result of a file's metadata() to its first
\* encode, or to the next file when this one is skipped.
BatchProbe ==
    /\ pc = "probe"
    /\ mode = "batch"
    /\ LET meta == files[fileIdx].meta
           fws  == FeasibleWidths(widths, meta.width)
           next == Continue(fileIdx, Len(files))
       IN  IF ~meta.ok
           THEN /\ log' = Append(log, LogEntry(fileIdx, "Metadata error"))
                /\ BatchLoop(next, allOutputs, allSnippets)
                /\ UNCHANGED encodeCalls
           ELSE IF meta.width = 0
           THEN /\ log' = Append(log, LogEntry(fileIdx, "Could not determine width"))
                /\ BatchLoop(next, allOutputs, allSnippets)
                /\ UNCHANGED encodeCalls
           ELSE IF Len(fws) = 0
           THEN /\ log' = Append(log, LogEntry(fileIdx, "All widths exceed original width"))
                /\ BatchLoop(next, allOutputs, allSnippets)
                /\ UNCHANGED encodeCalls
           ELSE /\ origW' = meta.width
                /\ finalWidths' = fws
                /\ outputs' = << >>
                /\ wIdx' = 1
                /\ pending' = FirstFmt(formats)
                /\ encodeCalls' = Append(encodeCalls,
                       EncodeCall(fileIdx, fws[1], FirstFmt(formats),
                                  QualityOf(FirstFmt(formats), qWebp, qAvif)))
                /\ pc' = "encode"
                /\ UNCHANGED << log, fileIdx, baseName, probeCalls, response,
                                archive, allOutputs, allSnippets >>
    /\ UNCHANGED << encodeResults, parked >>
    /\ UNCHANGED << mode, body, files, widths, formats, qWebp, qAvif, sizesIn >>

\* POST /process-batch, from the result of one encode to the next `await`:
\* the next encode of this file; after the file's last encode its snippets
\* and the pushes to allOutputs / allSnippets, then the next file; a throw
\* is caught, logged, and the loop continues.
BatchEncode ==
    /\ pc = "encode"
    /\ mode = "batch"
    /\ \E ok \in BOOLEAN :
         /\ encodeResults' = Append(encodeResults, ok)
         /\ UNCHANGED parked
         /\ IF ~ok
            THEN /\ log' = Append(log, LogEntry(fileIdx, "Processing error"))
                 /\ BatchLoop(Continue(fileIdx, Len(files)),
                              AfterCodecFailure(allOutputs, outputs), allSnippets)
                 /\ UNCHANGED encodeCalls
            ELSE LET w    == finalWidths[wIdx]
                     outs == Append(outputs,
                                 Pushed(fileIdx, baseName, w, pending,
                                        QualityOf(pending, qWebp, qAvif)))
                 IN  /\ UNCHANGED log
                     /\ IF AvifFollows(formats, pending)
                        THEN /\ outputs' = outs
                             /\ pending' = AVIF
                             /\ encodeCalls' = Append(encodeCalls,
                                    EncodeCall(fileIdx, w, AVIF, qAvif))
                             /\ UNCHANGED << wIdx, pc, response, archive, fileIdx,
                                             baseName, probeCalls, allOutputs,
                                             allSnippets, origW, finalWidths >>
                        ELSE IF wIdx < Len(finalWidths)
                        THEN /\ outputs' = outs
                             /\ wIdx' = wIdx + 1
                             /\ pending' = FirstFmt(formats)
                             /\ encodeCalls' = Append(encodeCalls,
                                    EncodeCall(fileIdx, finalWidths[wIdx + 1],
                                               FirstFmt(formats),
                                               QualityOf(FirstFmt(formats), qWebp, qAvif)))
                             /\ UNCHANGED << pc, response, archive, fileIdx,
                                             baseName, probeCalls, allOutputs,
                                             allSnippets, origW, finalWidths >>
                        ELSE /\ BatchLoop(fileIdx + 1, allOutputs \o outs,
                                    Append(allSnippets,
                                           BatchSnippetDoc(baseName, finalWidths,
                                                           formats, outs)))
                             /\ UNCHANGED encodeCalls
    /\ UNCHANGED << mode, body, files, widths, formats, qWebp, qAvif, sizesIn >>

\* POST /process-batch: await zip.finalize() returns.
BatchFinalize ==
    /\ pc = "finalize"
    /\ mode = "batch"
    /\ pc' = "done"
    /\ UNCHANGED << encodeResults, parked >>
    /\ UNCHANGED << mode, body, files, widths, formats, qWebp, qAvif, baseName,
                    sizesIn, fileIdx, origW, finalWidths, wIdx, pending,
                    outputs, allOutputs, allSnippets, log, probeCalls,
                    encodeCalls, response, archive >>

\* A request to /process arrives.
SingleStart ==
    /\ pc = "idle"
    /\ \E b \in SingleBodies, fs \in SingleFileLists : SingleReceive(b, fs)

\* A request to /process-batch arrives.
BatchStart ==
    /\ pc = "idle"
    /\ \E b \in BatchBodies, fs \in FileLists : BatchReceive(b, fs)

Next ==
    \/ SingleStart
    \/ SingleProbe
    \/ SingleEncode
    \/ SingleFinalize
    \/ BatchStart
    \/ BatchProbe
    \/ BatchEncode
    \/ BatchFinalize

Spec == Init /\ [][Next]_vars

-----------------------------------------------------------------------------
\* The configuration block alone, over a wider set of raw fields: a request
\* arrives and the handler runs up to its first `await`.  The fields are
\* resolved independently of each other, so they are varied in groups.

ResolveBodies ==
    { [NoFields EXCEPT !.widths = w, !.formats = f] :
          w \in WidthsFields \cup MoreWidthsFields,
          f \in FormatsFields \cup MoreFormatsFields }
    \cup
    { [NoFields EXCEPT !.quality_webp = qw, !.quality_avif = qa] :
          qw \in QualityFields \cup MoreQualityFields,
          qa \in QualityFields \cup MoreQualityFields }
    \cup
    { [NoFields EXCEPT !.basename = bn, !.sizes = sz, !.widths = w] :
          bn \in BasenameFields \cup MoreBasenameFields,
          sz \in SizesFields,
          w \in WidthsFields }

ResolveFileLists ==
    { << [originalname |-> n, meta |-> [ok |-> TRUE, width |-> 1200]] >> :
          n \in OriginalNames \cup MoreOriginalNames }

ResolveSingle ==
    /\ pc = "idle"
    /\ \E b \in ResolveBodies, fs \in ResolveFileLists : SingleReceive(b, fs)

ResolveBatch ==
    /\ pc = "idle"
    /\ \E b \in ResolveBodies, fs \in ResolveFileLists : BatchReceive(b, fs)

NextResolve ==
    \/ ResolveSingle
    \/ ResolveBatch

SpecResolve == Init /\ [][NextResolve]_vars

-----------------------------------------------------------------------------
\* Several requests in flight.  Node runs one continuation at a time; at
\* every `await` the running invocation yields and the event loop resumes
\* any other one.  The handler variables above are those of the invocation
\* that runs; the other invocations wait in `parked`.

\* Mutation of HandlerScope: the array is declared once, at module level.
ModuleScope(own, current) == current

\* The array a resumed invocation sees under a name it declared with
\* `const x = []` inside the handler's body: its own.
HandlerScope(own, current) == own

\* The event loop resumes invocation k.
Switch(k) ==
    LET c == parked[k] IN
    /\ c # Closure
    /\ parked' = [parked EXCEPT ![k] = Closure]
    /\ pc' = c.pc
    /\ mode' = c.mode
    /\ body' = c.body
    /\ files' = c.files
    /\ widths' = c.widths
    /\ formats' = c.formats
    /\ qWebp' = c.qWebp
    /\ qAvif' = c.qAvif
    /\ baseName' = c.baseName
    /\ sizesIn' = c.sizesIn
    /\ fileIdx' = c.fileIdx
    /\ origW' = c.origW
    /\ finalWidths' = c.finalWidths
    /\ wIdx' = c.wIdx
    /\ pending' = c.pending
    /\ outputs' = HandlerScope(c.outputs, outputs)
    /\ allOutputs' = HandlerScope(c.allOutputs, allOutputs)
    /\ allSnippets' = HandlerScope(c.allSnippets, allSnippets)
    /\ probeCalls' = c.probeCalls
    /\ encodeCalls' = c.encodeCalls
    /\ encodeResults' = c.encodeResults
    /\ response' = c.response
    /\ archive' = c.archive
    /\ UNCHANGED log

\* The requests the interleavings are explored for.  They differ in their
\* file names, widths and formats, so that an output or a binding of one
\* request that turns up in another is told apart.
AvifOnly == [NoFields EXCEPT !.formats = Given(<< "A", "V", "I", "F" >>)]

AvifAndWebp ==
    [NoFields EXCEPT !.formats = Given(<< "a", "v", "i", "f", ",", "w", "e", "b", "p" >>)]

ConcurrentFile(name, ok, w) ==
    [originalname |-> Given(<< name, ".", "j", "p", "g" >>),
     meta |-> [ok |-> ok, width |-> w]]

\* /process: no file; a.jpg in webp and avif at one width; b.jpg in avif at
\* two widths.
ConcurrentSingleRequests ==
    { [body |-> NoFields, files |-> << >>],
      [body |-> AvifAndWebp, files |-> << ConcurrentFile("a", TRUE, 500) >>],
      [body |-> AvifOnly, files |-> << ConcurrentFile("b", TRUE, 800) >>] }

\* /process-batch: no files; two images in webp and avif; an unreadable
\* image followed by one in webp.
ConcurrentBatchRequests ==
    { [body |-> NoFields, files |-> << >>],
      [body |-> AvifAndWebp,
       files |-> << ConcurrentFile("c", TRUE, 500), ConcurrentFile("d", TRUE, 500) >>],
      [body |-> NoFields,
       files |-> << ConcurrentFile("e", FALSE, 0), ConcurrentFile("f", TRUE, 500) >>] }

ConcurrentSingleStart ==
    /\ pc = "idle"
    /\ \E r \in ConcurrentSingleRequests : SingleReceive(r.body, r.files)

ConcurrentBatchStart ==
    /\ pc = "idle"
    /\ \E r \in ConcurrentBatchRequests : BatchReceive(r.body, r.files)

Resume == \E k \in 1..Len(parked) : Switch(k)

NextConcurrent ==
    \/ ConcurrentSingleStart
    \/ SingleProbe
    \/ SingleEncode
    \/ SingleFinalize
    \/ ConcurrentBatchStart
    \/ BatchProbe
    \/ BatchEncode
    \/ BatchFinalize
    \/ Resume

SpecConcurrent == Init /\ [][NextConcurrent]_vars

-----------------------------------------------------------------------------
\* Properties.

TypeOK ==
    /\ pc \in { "idle", "probe", "encode", "finalize", "done" }
    /\ mode \in { "none", "single", "batch" }
    /\ fileIdx \in 0..(Len(files) + 1)

\* The handler has run its configuration block.
ConfigResolved == pc # "idle" /\ Len(files) > 0

\* C7: resolving the configuration never leaves the widths list empty:
\* when body.widths is absent, or no token of it is a positive number, the
\* resolved widths are the default breakpoints 480, 768, 1200.
C7_WidthsFallBackToDefaults ==
    ConfigResolved =>
        /\ Len(widths) > 0
        /\ (~body.widths.present => widths = << 480, 768, 1200 >>)
        /\ LET tokens == Split(body.widths.val)
           IN  (body.widths.present /\
                \A k \in 1..Len(tokens) :
                    ParseInt(Trim(tokens[k])).nan \/ ParseInt(Trim(tokens[k])).val <= 0)
               => widths = << 480, 768, 1200 >>

\* What C8 states for one raw quality field, its resolved value and its
\* default.
QualityAsClaimed(raw, q, dflt) ==
    /\ ~q.nan
    /\ q.val \in 1..100
    /\ (~raw.present => q.val = dflt)
    /\ (raw.present /\ ParseInt(raw.val).nan => q.val = dflt)
    /\ (raw.present /\ ~ParseInt(raw.val).nan /\ ParseInt(raw.val).val < 1 => q.val = 1)
    /\ (raw.present /\ ~ParseInt(raw.val).nan /\ ParseInt(raw.val).val > 100 => q.val = 100)

\* C8: the resolved qualities are integers in 1..100: the default (82 webp,
\* 55 avif) for an absent or non-numeric field, 1 for a number below 1, 100
\* for a number above 100.
C8_QualityClampedOrDefault ==
    ConfigResolved =>
        /\ QualityAsClaimed(body.quality_webp, qWebp, 82)
        /\ QualityAsClaimed(body.quality_avif, qAvif, 55)

-----------------------------------------------------------------------------
\* Facts about a request that the properties below refer to, stated on the
\* request and on the codec's recorded behaviour.

\* The intrinsic width the probe reports for file i.
IntrinsicWidth(i) == files[i].meta.width

\* File i cannot be processed whatever the codec does: unreadable metadata,
\* no width, or every resolved width larger than the original.
InputFails(i) ==
    \/ ~files[i].meta.ok
    \/ IntrinsicWidth(i) = 0
    \/ \A k \in 1..Len(widths) : widths[k] > IntrinsicWidth(i)

\* The files one of whose encodes threw.
CodecFailed ==
    { encodeCalls[k].file : k \in { j \in 1..Len(encodeResults) : ~encodeResults[j] } }

\* The files console.error recorded a skip or failure for.
Logged == { log[k].file : k \in 1..Len(log) }

\* The archive's entries but the last one (the snippet document).
ImageEntries == IF Len(archive) = 0 THEN << >> ELSE SubSeq(archive, 1, Len(archive) - 1)

\* The files that have entries in the archive.
ArchivedFiles == { ImageEntries[k].data.file : k \in 1..Len(ImageEntries) }

\* The positions of the archive's entries that come from file i.
EntriesOf(i) == { k \in 1..Len(ImageEntries) : ImageEntries[k].data.file = i }

RequestedFormats == { formats[k] : k \in 1..Len(formats) }

\* The positions in widths of the widths that do not exceed file i's width.
FeasiblePositions(i) == { k \in 1..Len(widths) : widths[k] <= IntrinsicWidth(i) }

\* C1: no derivative is wider than its original: finalWidths is a part of
\* the resolved widths with every element <= the probed width, every
\* output's width is in finalWidths, and every encode call, aggregated
\* output and archive entry has a requested width <= its file's width.
C1_NoUpscaling ==
    /\ \A k \in 1..Len(finalWidths) :
           Includes(widths, finalWidths[k]) /\ finalWidths[k] <= origW
    /\ (Len(finalWidths) > 0 => origW = IntrinsicWidth(fileIdx))
    /\ \A k \in 1..Len(outputs) :
           /\ Includes(finalWidths, outputs[k].width)
           /\ outputs[k].width <= IntrinsicWidth(outputs[k].buf.file)
    /\ \A k \in 1..Len(allOutputs) :
           /\ Includes(widths, allOutputs[k].width)
           /\ allOutputs[k].width <= IntrinsicWidth(allOutputs[k].buf.file)
    /\ \A k \in 1..Len(encodeCalls) :
           encodeCalls[k].width <= IntrinsicWidth(encodeCalls[k].file)
    /\ \A k \in 1..Len(ImageEntries) :
           /\ Includes(widths, ImageEntries[k].data.width)
           /\ ImageEntries[k].data.width <= IntrinsicWidth(ImageEntries[k].data.file)

\* An archive was produced for a request one of whose widths exceeds the
\* width of an archived image.
C1_Witness ==
    /\ Len(ImageEntries) > 0
    /\ \E k \in 1..Len(widths) : widths[k] > IntrinsicWidth(ImageEntries[1].data.file)
    /\ \E k \in 1..Len(widths) : widths[k] = ImageEntries[1].data.width

\* C2: in /process, when the probe gives a width and every resolved width
\* exceeds it, the request ends with the all-widths-exceed error stating
\* that width, no encode was called, no output exists and no archive.
C2_AllWidthsExceedFails ==
    ( /\ mode = "single"
      /\ pc \in { "encode", "finalize", "done" }
      /\ Len(files) = 1
      /\ files[1].meta.ok
      /\ IntrinsicWidth(1) > 0
      /\ \A k \in 1..Len(widths) : widths[k] > IntrinsicWidth(1) )
    => /\ pc = "done"
       /\ response = JsonError(400, "All requested widths exceed original width",
                               IntrinsicWidth(1))
       /\ encodeCalls = << >>
       /\ outputs = << >>
       /\ archive = << >>

\* /process answered widths "2000" for an image 1200 wide.
C2_Witness ==
    /\ mode = "single"
    /\ pc = "done"
    /\ widths = << 2000 >>
    /\ Len(files) = 1
    /\ files[1].meta.ok
    /\ IntrinsicWidth(1) = 1200
    /\ response.width = 1200

\* C3: /process-batch attempts every file in order whatever happened to the
\* files before it; a file that fails (metadata, width, all widths too
\* large, codec) is logged once with the reason of its stage and
\* contributes nothing; every other finished file contributes outputs and
\* one snippet; and once the loop is over with at least one file processed
\* the response is the archive, holding the entries of exactly the files
\* that did not fail and their snippets.
C3_BatchSkipsAndContinues ==
    (mode = "batch" /\ Len(files) > 0) =>
        LET n        == Len(files)
            finished == { i \in 1..n : i < fileIdx }
            contrib  == { allOutputs[k].buf.file : k \in 1..Len(allOutputs) }
            failed   == { i \in finished : InputFails(i) \/ i \in CodecFailed }
        IN  /\ probeCalls = [k \in 1..Len(probeCalls) |-> k]
            /\ Len(probeCalls) = IF fileIdx <= n THEN fileIdx ELSE n
            /\ Logged = failed
            /\ contrib = finished \ failed
            /\ Len(log) = Cardinality(failed)
            /\ Len(allSnippets) = Cardinality(contrib)
            /\ \A k \in 1..Len(log) :
                   log[k].reason =
                       IF ~files[log[k].file].meta.ok THEN "Metadata error"
                       ELSE IF IntrinsicWidth(log[k].file) = 0
                            THEN "Could not determine width"
                       ELSE IF InputFails(log[k].file)
                            THEN "All widths exceed original width"
                       ELSE "Processing error"
            /\ (pc \in { "finalize", "done" } =>
                   /\ fileIdx = n + 1
                   /\ (finished \ failed # {} =>
                          /\ response = ZipResponse
                          /\ ArchivedFiles = (1..n) \ failed
                          /\ ImageEntries = OutputEntries(allOutputs)
                          /\ archive[Len(archive)].name = SnippetsHtml
                          /\ archive[Len(archive)].data.blocks = allSnippets
                          /\ Len(allSnippets) = n - Cardinality(failed)))

\* A batch whose first file failed and whose second file is in the archive.
C3_Witness ==
    /\ mode = "batch"
    /\ pc = "done"
    /\ Len(files) = 2
    /\ ~files[1].meta.ok
    /\ Len(log) = 1
    /\ response = ZipResponse
    /\ ArchivedFiles = { 2 }

\* C4: in /process-batch with at least one file, an error response is given
\* only after the loop went through every file; when every file failed the
\* response is "No images could be processed", with no output and no
\* archive.
C4_NoImagesProcessable ==
    (mode = "batch" /\ Len(files) > 0) =>
        LET n == Len(files) IN
        /\ (response.type # "none" =>
               fileIdx = n + 1 /\ Len(probeCalls) = n)
        /\ (response.type = "json" =>
               /\ response = JsonError(400, "No images could be processed", 0)
               /\ \A i \in 1..n : InputFails(i) \/ i \in CodecFailed
               /\ allOutputs = << >>
               /\ archive = << >>)
        /\ ( ( /\ pc \in { "finalize", "done" }
               /\ \A i \in 1..n : InputFails(i) \/ i \in CodecFailed )
             => /\ pc = "done"
                /\ response = JsonError(400, "No images could be processed", 0)
                /\ allOutputs = << >>
                /\ archive = << >> )

\* A batch of two files failed as a whole, its last file at the codec after
\* an earlier encode of it had succeeded.
C4_Witness ==
    /\ mode = "batch"
    /\ pc = "done"
    /\ Len(files) = 2
    /\ response.error = "No images could be processed"
    /\ 2 \in CodecFailed
    /\ \E k \in 1..Len(encodeResults) : encodeResults[k]

\* C5: a file's entries in an archive are none or all: one for every
\* feasible width position and requested format; a file one of whose
\* encodes threw has none.  /process produces an archive only with the
\* file's complete set and its snippet document, and none when an encode
\* threw; /process-batch holds one snippet per contributing file.
C5_AllOrNothingPerImage ==
    /\ \A i \in 1..Len(files) :
           /\ \/ EntriesOf(i) = {}
              \/ /\ Cardinality(EntriesOf(i)) =
                        Cardinality(FeasiblePositions(i)) * Cardinality(RequestedFormats)
                 /\ \A k \in FeasiblePositions(i), f \in RequestedFormats :
                        \E e \in EntriesOf(i) :
                            /\ ImageEntries[e].data.width = widths[k]
                            /\ ImageEntries[e].data.fmt = f
           /\ (i \in CodecFailed => EntriesOf(i) = {})
    /\ (mode = "single" /\ Len(archive) > 0 =>
           /\ EntriesOf(1) # {}
           /\ archive[Len(archive)].name = SnippetHtml)
    /\ (mode = "single" /\ CodecFailed # {} =>
           /\ archive = << >>
           /\ response = JsonError(500, "Image processing failed in sharp", 0))
    /\ (mode = "batch" /\ Len(archive) > 0 =>
           /\ archive[Len(archive)].name = SnippetsHtml
           /\ Len(archive[Len(archive)].data.blocks) = Cardinality(ArchivedFiles))

\* A batch archive with the entries of one file, while another file's
\* encode threw after an earlier encode of that file had returned a buffer.
C5_Witness ==
    /\ mode = "batch"
    /\ Len(archive) > 0
    /\ ArchivedFiles # {}
    /\ \E k \in 2..Len(encodeResults) :
           /\ ~encodeResults[k]
           /\ encodeResults[k - 1]
           /\ encodeCalls[k - 1].file = encodeCalls[k].file

\* The archive's entries that come from file i, in the archive's order.
EntriesSeq(i) ==
    Filter(ImageEntries, [k \in 1..Len(ImageEntries) |-> ImageEntries[k].data.file = i])

\* The entries of es in format f, in order.
EntriesInFormat(es, f) ==
    Filter(es, [k \in 1..Len(es) |-> es[k].data.fmt = f])

\* The srcset text that lists the entries es: "name WIDTHw" for each,
\* separated by ", ".
ListedAs(es) ==
    Join([k \in 1..Len(es) |->
              es[k].name \o << " " >> \o NumStr(es[k].data.width) \o << "w" >>],
         << ",", " " >>)

\* s ends with t.
EndsWith(s, t) ==
    Len(s) >= Len(t) /\ SubSeq(s, Len(s) - Len(t) + 1, Len(s)) = t

\* What C6 states of the snippet document doc of file i, whose archive
\* entries are es.
MarkupMatches(doc, i, es) ==
    LET main   == IF WEBP \in RequestedFormats THEN WEBP ELSE AVIF
        mains  == EntriesInFormat(es, main)
    IN  /\ Len(es) > 0
        /\ \A k \in 1..Len(es) :
               EndsWith(es[k].name,
                        << "-" >> \o NumStr(es[k].data.width) \o << "." >> \o es[k].data.fmt)
        /\ \E k \in 1..Len(mains) :
               /\ mains[k].name = doc.img.src
               /\ \A j \in 1..Len(es) : mains[k].data.width <= es[j].data.width
        /\ doc.img.srcset = ListedAs(mains)
        /\ Len(mains) = Cardinality(FeasiblePositions(i))
        /\ \A k \in 1..(Len(mains) - 1) : mains[k].data.width <= mains[k + 1].data.width
        /\ doc.picture.src = doc.img.src
        /\ (doc.picture.tag = "img" => doc.picture = doc.img)
        /\ \A k \in 1..Len(doc.picture.sources) :
               LET src == doc.picture.sources[k]
               IN  /\ src.type \in RequestedFormats
                   /\ Len(EntriesInFormat(es, src.type)) = Cardinality(FeasiblePositions(i))
                   /\ src.srcset = ListedAs(EntriesInFormat(es, src.type))

\* The k-th file, in the order of the files, that has entries in the archive.
NthArchivedFile(k) ==
    CHOOSE i \in ArchivedFiles :
        Cardinality({ j \in ArchivedFiles : j < i }) = k - 1

C9_NoDuplicateOutputs ==
    /\ (ConfigResolved =>
           \A k \in 1..(Len(widths) - 1) : widths[k] < widths[k + 1])
    /\ \A j, k \in 1..Len(outputs) :
           j # k => /\ << outputs[j].width, outputs[j].fmt >> #
                       << outputs[k].width, outputs[k].fmt >>
                    /\ outputs[j].name # outputs[k].name
    /\ \A j, k \in 1..Len(ImageEntries) :
           (j # k /\ ImageEntries[j].data.file = ImageEntries[k].data.file)
               => ImageEntries[j].name # ImageEntries[k].name

\* C10: in /process-batch, outputs of different images never share a file
\* name, neither in allOutputs nor among the archive's entries.
C10_BatchNamesDistinctAcrossImages ==
    mode = "batch" =>
        /\ \A j, k \in 1..Len(allOutputs) :
               allOutputs[j].buf.file # allOutputs[k].buf.file
                   => allOutputs[j].name # allOutputs[k].name
        /\ \A j, k \in 1..Len(ImageEntries) :
               ImageEntries[j].data.file # ImageEntries[k].data.file
                   => ImageEntries[j].name # ImageEntries[k].name

\* The snippet document of the k-th image of an archive and the file it
\* belongs to: /process has one, /process-batch one block per archived file.
DocCount ==
    IF Len(archive) = 0 THEN 0
    ELSE IF mode = "single" THEN 1
    ELSE Len(archive[Len(archive)].data.blocks)

DocAt(k) ==
    IF mode = "single" THEN archive[Len(archive)].data
    ELSE archive[Len(archive)].data.blocks[k]

DocFile(k) == IF mode = "single" THEN 1 ELSE NthArchivedFile(k)

\* What C11 states of the snippet document doc of file i, whose archive
\* entries are es.
PictureAsClaimed(doc, i, es) ==
    LET webps == EntriesInFormat(es, WEBP)
    IN  /\ (Cardinality(RequestedFormats) = 1 =>
               /\ doc.picture.tag = "img"
               /\ doc.picture = doc.img)
        /\ (RequestedFormats = { WEBP, AVIF } =>
               /\ doc.picture.tag = "picture"
               /\ Len(doc.picture.sources) = 2
               /\ doc.picture.sources[1].type = AVIF
               /\ doc.picture.sources[2].type = WEBP
               /\ \A k \in 1..2 :
                      LET src == doc.picture.sources[k]
                      IN  /\ src.srcset = ListedAs(EntriesInFormat(es, src.type))
                          /\ Len(EntriesInFormat(es, src.type)) =
                                 Cardinality(FeasiblePositions(i))
               /\ \E k \in 1..Len(webps) :
                      /\ webps[k].name = doc.picture.src
                      /\ \A j \in 1..Len(es) : webps[k].data.width <= es[j].data.width)

\* C11: the shape of the picture snippet follows the set of requested
\* formats: with one format it is the img snippet itself, with webp and
\* avif it holds the avif source, then the webp source, one srcset entry per
\* feasible width each, and an img whose src is the smallest webp file.
C11_PictureShapeBySetOfFormats ==
    \A k \in 1..DocCount :
        PictureAsClaimed(DocAt(k), DocFile(k), EntriesSeq(DocFile(k)))

\* C14: the image count in the header of snippets.html is the number of
\* images processed: the number of blocks of the document and of files with
\* entries in the archive.
C14_HeaderCountsProcessedImages ==
    (mode = "batch" /\ Len(archive) > 0) =>
        LET doc == archive[Len(archive)].data
        IN  /\ doc.count = Len(doc.blocks)
            /\ doc.count = Cardinality(ArchivedFiles)

\* The widths that do not exceed file i's width, as a set.
FeasibleSet(i) == { widths[k] : k \in FeasiblePositions(i) }

\* The base name of file i's outputs.
BaseNameOf(i) ==
    IF mode = "single" THEN SingleBaseName(body.basename, files[1])
    ELSE BatchBaseName(files[i])

\* What C13 states of the archive entries es of file i.
OutputsAsClaimed(i, es) ==
    /\ Len(es) = Cardinality(FeasibleSet(i)) * Cardinality(RequestedFormats)
    /\ \A w \in FeasibleSet(i), f \in RequestedFormats :
           Cardinality({ k \in 1..Len(es) :
                           es[k].data.width = w /\ es[k].data.fmt = f }) = 1
    /\ \A k \in 1..Len(es) :
           /\ es[k].data.width \in FeasibleSet(i)
           /\ es[k].data.fmt \in RequestedFormats
           /\ es[k].name = BaseNameOf(i) \o << "-" >> \o NumStr(es[k].data.width)
                               \o << "." >> \o es[k].data.fmt
    /\ \A k \in 1..(Len(es) - 1) :
           \/ es[k].data.width < es[k + 1].data.width
           \/ /\ es[k].data.width = es[k + 1].data.width
              /\ es[k].data.fmt = WEBP
              /\ es[k + 1].data.fmt = AVIF

\* C13: a processed image has exactly one output per feasible width and
\* requested format, named {baseName}-{width}.{format}, by ascending width
\* and webp before avif within a width, whatever the order of the formats
\* in the request.
C13_OneOutputPerWidthAndFormat ==
    \A k \in 1..DocCount :
        OutputsAsClaimed(DocFile(k), EntriesSeq(DocFile(k)))

\* The encodes of one image, in the order of the loop: for each width, webp
\* if requested, then avif if requested.
EncodePlan(fws, fmts) ==
    LET ord == (IF Includes(fmts, WEBP) THEN << WEBP >> ELSE << >>) \o
               (IF Includes(fmts, AVIF) THEN << AVIF >> ELSE << >>)
        n   == Len(ord)
    IN  [k \in 1..(Len(fws) * n) |->
            [w |-> fws[((k - 1) \div n) + 1], fmt |-> ord[((k - 1) % n) + 1]]]

\* Whether one of the first n codec results rs is a throw.
Throws(rs, n) == \E k \in 1..n : k <= Len(rs) /\ ~rs[k]

\* The position of the first throw among rs.
FirstThrow(rs) == CHOOSE k \in 1..Len(rs) : ~rs[k] /\ \A j \in 1..(k - 1) : rs[j]

\* The outputs of file i when every encode of its plan returns a buffer.
PlannedOutputs(i, base, plan, cfg) ==
    [k \in 1..Len(plan) |->
        Pushed(i, base, plan[k].w, plan[k].fmt,
               QualityOf(plan[k].fmt, cfg.qWebp, cfg.qAvif))]

\* What POST /process answers to body b and files fs when it is the only
\* request, the codec giving the results rs.
AloneSingle(b, fs, rs) ==
    IF Len(fs) = 0
    THEN [response |-> JsonError(400, "Missing file", 0), archive |-> << >>]
    ELSE LET cfg  == ResolveConfig(b)
             meta == fs[1].meta
             base == SingleBaseName(b.basename, fs[1])
             fws  == FeasibleWidths(cfg.widths, meta.width)
             plan == EncodePlan(fws, cfg.formats)
             outs == PlannedOutputs(1, base, plan, cfg)
         IN  IF ~meta.ok
             THEN [response |-> JsonError(400, "Could not read image metadata", 0),
                   archive |-> << >>]
             ELSE IF meta.width = 0
             THEN [response |-> JsonError(400, "Could not determine image width", 0),
                   archive |-> << >>]
             ELSE IF Len(fws) = 0
             THEN [response |-> JsonError(400, "All requested widths exceed original width",
                                          meta.width),
                   archive |-> << >>]
             ELSE IF Throws(rs, Len(plan))
             THEN [response |-> JsonError(500, "Image processing failed in sharp", 0),
                   archive |-> << >>]
             ELSE [response |-> ZipResponse,
                   archive |-> OutputEntries(outs) \o
                       << [ name |-> SnippetHtml,
                            data |-> SingleSnippetDoc(base, fws, cfg.formats, outs,
                                         Coalesce(b.sizes, DefaultSizes(cfg.widths))) ] >>]

RECURSIVE AloneBatchFrom(_, _, _, _, _, _)
\* What POST /process-batch answers from file i on, alone, with the outputs
\* all and the snippets snips of the files before i, the codec giving rs.
AloneBatchFrom(i, fs, cfg, rs, all, snips) ==
    IF i > Len(fs)
    THEN IF Len(all) = 0
         THEN [response |-> JsonError(400, "No images could be processed", 0),
               archive |-> << >>]
         ELSE [response |-> ZipResponse,
               archive |-> OutputEntries(all) \o
                   << [ name |-> SnippetsHtml,
                        data |-> CombinedSnippets(fs, cfg.widths, cfg.formats, snips) ] >>]
    ELSE LET meta == fs[i].meta
             base == BatchBaseName(fs[i])
             fws  == FeasibleWidths(cfg.widths, meta.width)
             plan == EncodePlan(fws, cfg.formats)
             outs == PlannedOutputs(i, base, plan, cfg)
         IN  IF ~meta.ok \/ meta.width = 0 \/ Len(fws) = 0
             THEN AloneBatchFrom(i + 1, fs, cfg, rs, all, snips)
             ELSE IF Throws(rs, Len(plan))
             THEN AloneBatchFrom(i + 1, fs, cfg,
                      SubSeq(rs, FirstThrow(rs) + 1, Len(rs)), all, snips)
             ELSE AloneBatchFrom(i + 1, fs, cfg,
                      SubSeq(rs, Len(plan) + 1, Len(rs)), all \o outs,
                      Append(snips, BatchSnippetDoc(base, fws, cfg.formats, outs)))

AloneBatch(b, fs, rs) ==
    IF Len(fs) = 0
    THEN [response |-> JsonError(400, "No files provided", 0), archive |-> << >>]
    ELSE AloneBatchFrom(1, fs, ResolveConfig(b), rs, << >>, << >>)

\* The invocations in flight: the running one and the parked ones.
InFlight == << Closure >> \o parked

\* Whether invocation c has answered.
Answered(c) == c.pc \in { "finalize", "done" }

\* C12: whatever the interleaving of the requests in flight at their awaits,
\* the response and the archive of every request that has answered are those
\* the same request gets when it runs alone with the same codec results.
C12_ConcurrentRequestsIsolated ==
    \A k \in 1..Len(InFlight) :
        LET c == InFlight[k]
        IN  Answered(c) =>
                [response |-> c.response, archive |-> c.archive]
                    = IF c.mode = "single"
                      THEN AloneSingle(c.body, c.files, c.encodeResults)
                      ELSE AloneBatch(c.body, c.files, c.encodeResults)

\* A batch request has answered with an archive of two images' outputs while
\* another batch request, with outputs of its own first image collected, waits
\* for an encode of its second image.
C12_Witness ==
    /\ mode = "batch"
    /\ pc = "done"
    /\ response = ZipResponse
    /\ Cardinality(ArchivedFiles) = 2
    /\ \E k \in 1..Len(parked) :
           /\ parked[k].mode = "batch"
           /\ parked[k].pc = "encode"
           /\ parked[k].fileIdx = 2
           /\ Len(parked[k].allOutputs) > 0
           /\ Len(parked[k].outputs) > 0

====
